---- MODULE Spec2Model ----
(***************************************************************************)
(* Model of misuzu, a single-step canary traffic controller for App        *)
(* Engine services (main.go and the App Engine client file).               *)
(*                                                                         *)
(* Percentages are float64 in the source.  The model keeps them in fixed   *)
(* point: an integer p stands for p / PctScale percent, and an allocation  *)
(* a of the platform stands for the fraction a / DecimalScale.  All values *)
(* drawn below are multiples of 1/PctScale percent.                        *)
(***************************************************************************)
EXTENDS Integers, Sequences, FiniteSets, TLC

(* ------------------------------ bounds --------------------------------- *)
PctScale == 2
MaxRuns == 2
MaxInterval == 1

(* -------------------------- program constants -------------------------- *)
DefaultInterval == 300
DefaultTargetRate == 100
DefaultStepRate == 10
MinStepRate == 1
MaxStepRate == 100
PercentageMultiplier == 100
TicksPerSecond == 10

DecimalScale == PercentageMultiplier * PctScale
Hundred == 100 * PctScale

(* appenginepb.TrafficSplit_ShardBy_value, the enum-name table the client  *)
(* looks the shardBy argument up in.                                       *)
TrafficSplit_ShardBy_value ==
    [n \in {"UNSPECIFIED", "COOKIE", "IP", "RANDOM"} |->
        CASE n = "UNSPECIFIED" -> 0
          [] n = "COOKIE" -> 1
          [] n = "IP" -> 2
          [] n = "RANDOM" -> 3]

(* strings.ToUpper on the strings the model uses *)
ToUpper(s) ==
    CASE s = "unspecified" -> "UNSPECIFIED"
      [] s = "cookie" -> "COOKIE"
      [] s = "ip" -> "IP"
      [] s = "random" -> "RANDOM"
      [] OTHER -> s

(* ------------------------------ inputs --------------------------------- *)
Versions == {"A", "B", "C"}
Projects == {"", "proj"}
Services == {"", "svc"}
TargetVersions == {"", "B", "C"}
Intervals == {-1, 0, MaxInterval}
TargetRates == {0, 60, 100, 150}
StepRates == {0, 1, 10, 25, 100, 101}

Configs ==
    [Project : Projects, Service : Services, TargetVersion : TargetVersions,
     Interval : Intervals, TargetRate : TargetRates, StepRate : StepRates,
     DryRun : BOOLEAN]

(* shares of version B, in units of 1/PctScale percent, the platform can   *)
(* start with (99.5% included)                                             *)
InitDestPcts ==
    {0, 10 * PctScale, 30 * PctScale, 50 * PctScale, 60 * PctScale,
     95 * PctScale, Hundred - 1, Hundred}

EmptyMap == [v \in {} |-> 0]

(* a platform split never stores a zero allocation *)
Positive(f) == [v \in {w \in DOMAIN f : f[w] > 0} |-> f[v]]

TwoVersionPlatforms ==
    {[versions |-> order,
      split |-> Positive([v \in {"A", "B"} |->
                    IF v = "B" THEN d ELSE DecimalScale - d])] :
        order \in {<<"A", "B">>, <<"B", "A">>}, d \in InitDestPcts}

OneVersionPlatforms ==
    {[versions |-> <<v>>, split |-> [w \in {v} |-> DecimalScale]] :
        v \in {"A", "B"}}

ThreeVersionPlatforms ==
    {[versions |-> <<"A", "B", "C">>,
      split |-> [v \in Versions |->
                    CASE v = "A" -> 50 * PctScale
                      [] v = "B" -> 30 * PctScale
                      [] v = "C" -> 20 * PctScale]],
     [versions |-> <<"C", "A", "B">>,
      split |-> [v \in {"A", "B"} |->
                    IF v = "A" THEN 70 * PctScale ELSE 30 * PctScale]]}

Platforms == OneVersionPlatforms \cup TwoVersionPlatforms \cup ThreeVersionPlatforms

(* ------------------------------- state --------------------------------- *)
VARIABLES
    platform,        \* the App Engine service: deployed versions, traffic split
    platform0,       \* the service as it was before the first invocation
    config,          \* Config of the invocations
    pc,              \* position of main
    violations,      \* fields reported by Config.validate
    trafficInfo,     \* the snapshot main works on
    ticks,           \* iterations of the loop of sleepWithProgress
    sourceVersion,   \* result of determineSourceVersion
    resolveErr,      \* its error
    allocations,     \* the map built for UpdateTrafficAllocation
    applyCalls,      \* calls of UpdateTrafficAllocation in this run
    updateRequests,  \* UpdateService requests the platform received in this run
    faulted,         \* a platform call failed on the platform's side so far
    exitCode,        \* -1 while running
    runs,            \* invocations so far
    fetchCalls,      \* calls of ListServiceVersions in this run
    fetchFault,      \* a platform call of this run's fetch failed
    applyErr,        \* what the last UpdateTrafficAllocation returned
    shardByArg,      \* the shardBy argument of UpdateTrafficAllocation
    otherRun         \* a second invocation of main running at the same time

vars == <<platform, platform0, config, pc, violations, trafficInfo, ticks,
          sourceVersion, resolveErr, allocations, applyCalls, updateRequests,
          faulted, exitCode, runs, fetchCalls, fetchFault, applyErr, shardByArg,
          otherRun>>

(* ---------------------------- Config.validate -------------------------- *)
Required(value, field) == IF value = "" THEN <<field>> ELSE <<>>

(* returns at the first violation *)
validate_FirstErrorOnly(c) ==
    IF c.Project = "" THEN <<"project">>
    ELSE IF c.Service = "" THEN <<"service">>
    ELSE IF c.TargetVersion = "" THEN <<"target-version">>
    ELSE IF c.StepRate < MinStepRate \/ c.StepRate > MaxStepRate THEN <<"step-rate">>
    ELSE <<>>

validate(c) ==
    Required(c.Project, "project")
    \o Required(c.Service, "service")
    \o Required(c.TargetVersion, "target-version")
    \o (IF c.StepRate < MinStepRate \/ c.StepRate > MaxStepRate
        THEN <<"step-rate">> ELSE <<>>)

Range(s) == {s[i] : i \in DOMAIN s}

(* float64(n) of an integer percentage *)
Float(n) == n * PctScale

(* ------------------------- App Engine client --------------------------- *)
convertToPercentage(allocation) ==
    (allocation * PercentageMultiplier * PctScale) \div DecimalScale

convertToDecimal(percentage) ==
    (percentage * DecimalScale) \div (PercentageMultiplier * PctScale)

(* the service's Split is nil or has no allocations *)
validateTrafficSplit(service) == DOMAIN service.split = {}

(* Outcomes of the platform calls of one step, chosen by the environment.  *)
FetchOutcomes ==
    [versionsClient : BOOLEAN, servicesClient : BOOLEAN,
     getService : BOOLEAN, listVersions : BOOLEAN]
ApplyOutcomes ==
    [servicesClient : BOOLEAN, updateService : BOOLEAN, operationWait : BOOLEAN]

(* The slice GetTrafficInfo builds from the Go map is in no fixed order;   *)
(* its only reader, getTrafficMap, keys it by version again, so it is kept *)
(* as a map here.                                                          *)
GetTrafficInfo(service, o) ==
    IF ~o.servicesClient THEN [err |-> TRUE, Allocations |-> EmptyMap]
    ELSE IF ~o.getService THEN [err |-> TRUE, Allocations |-> EmptyMap]
    ELSE IF validateTrafficSplit(service) THEN [err |-> TRUE, Allocations |-> EmptyMap]
    ELSE [err |-> FALSE,
          Allocations |-> [v \in DOMAIN service.split |->
                              convertToPercentage(service.split[v])]]

getTrafficMap(service, o) ==
    LET info == GetTrafficInfo(service, o) IN
    IF info.err THEN [err |-> TRUE, trafficMap |-> EmptyMap]
    ELSE [err |-> FALSE, trafficMap |-> info.Allocations]

buildVersionInfo(versionID, trafficMap) ==
    [VersionID |-> versionID,
     HasTraffic |-> versionID \in DOMAIN trafficMap,
     TrafficPercent |-> IF versionID \in DOMAIN trafficMap
                        THEN trafficMap[versionID] ELSE 0]

(* a failure of getTrafficMap is only warned about *)
ListServiceVersions(service, o) ==
    IF ~o.versionsClient THEN [err |-> TRUE, Versions |-> <<>>]
    ELSE LET tm == getTrafficMap(service, o) IN
         IF ~o.listVersions THEN [err |-> TRUE, Versions |-> <<>>]
         ELSE [err |-> FALSE,
               Versions |-> [i \in 1..Len(service.versions) |->
                                buildVersionInfo(service.versions[i], tm.trafficMap)]]

(* Not among the source files: every listed version becomes an allocation  *)
(* carrying its traffic percentage (0 for a version without traffic).      *)
trafficInfoFromServiceVersions(serviceVersions) ==
    [i \in 1..Len(serviceVersions.Versions) |->
        [Version |-> serviceVersions.Versions[i].VersionID,
         Percentage |-> serviceVersions.Versions[i].TrafficPercent]]

(* returns success as soon as the update request is accepted, without     *)
(* waiting for the operation                                               *)
UpdateTrafficAllocation_FireAndForget(service, shardBy, allocs, o) ==
    LET apiAllocations == [v \in DOMAIN allocs |-> convertToDecimal(allocs[v])] IN
    IF ~o.servicesClient
    THEN [err |-> "client", service |-> service, requests |-> <<>>]
    ELSE IF ToUpper(shardBy) \notin DOMAIN TrafficSplit_ShardBy_value
    THEN [err |-> "shardBy", service |-> service, requests |-> <<>>]
    ELSE IF ~o.updateService
    THEN [err |-> "update", service |-> service, requests |-> <<apiAllocations>>]
    ELSE [err |-> "", service |-> service, requests |-> <<apiAllocations>>]

(* ignores the failed lookup and sends the zero value of ShardBy           *)
UpdateTrafficAllocation_AnyShardBy(service, shardBy, allocs, o) ==
    LET apiAllocations == [v \in DOMAIN allocs |-> convertToDecimal(allocs[v])] IN
    IF ~o.servicesClient
    THEN [err |-> "client", service |-> service, requests |-> <<>>]
    ELSE IF ~o.updateService
    THEN [err |-> "update", service |-> service, requests |-> <<apiAllocations>>]
    ELSE IF ~o.operationWait
    THEN [err |-> "wait", service |-> service, requests |-> <<apiAllocations>>]
    ELSE [err |-> "",
          service |-> [service EXCEPT !.split = apiAllocations],
          requests |-> <<apiAllocations>>]

(* err: "" on success, else the step that failed.  requests: the           *)
(* UpdateService requests that reached the platform.                       *)
UpdateTrafficAllocation(service, shardBy, allocs, o) ==
    LET apiAllocations == [v \in DOMAIN allocs |-> convertToDecimal(allocs[v])] IN
    IF ~o.servicesClient
    THEN [err |-> "client", service |-> service, requests |-> <<>>]
    ELSE IF ToUpper(shardBy) \notin DOMAIN TrafficSplit_ShardBy_value
    THEN [err |-> "shardBy", service |-> service, requests |-> <<>>]
    ELSE IF ~o.updateService
    THEN [err |-> "update", service |-> service, requests |-> <<apiAllocations>>]
    ELSE IF ~o.operationWait
    THEN [err |-> "wait", service |-> service, requests |-> <<apiAllocations>>]
    ELSE [err |-> "",
          service |-> [service EXCEPT !.split = apiAllocations],
          requests |-> <<apiAllocations>>]

(* ------------------------------ main.go -------------------------------- *)
RECURSIVE LastOtherVersion(_, _, _)
(* the loop of the two-version case: the last allocation that is not the   *)
(* target wins                                                             *)
LastOtherVersion(allocs, targetVersion, i) ==
    IF i = 0 THEN ""
    ELSE IF allocs[i].Version # targetVersion THEN allocs[i].Version
    ELSE LastOtherVersion(allocs, targetVersion, i - 1)

NoDetail == <<>>

(* reports every single-allocation snapshot as already complete *)
determineSourceVersion_SingleIsComplete(info, targetVersion) ==
    IF Len(info) = 0
    THEN [version |-> "", err |-> "NoTrafficData", detail |-> NoDetail]
    ELSE IF Len(info) = 1
    THEN [version |-> "", err |-> "AlreadyComplete", detail |-> NoDetail]
    ELSE IF Len(info) = 2
    THEN LET sv == LastOtherVersion(info, targetVersion, 2) IN
         IF sv = ""
         THEN [version |-> "", err |-> "DestinationNotFound", detail |-> NoDetail]
         ELSE [version |-> sv, err |-> "", detail |-> NoDetail]
    ELSE [version |-> "", err |-> "AbnormalTrafficState",
          detail |-> [i \in 1..Len(info) |-> <<info[i].Version, info[i].Percentage>>]]

(* treats any snapshot of two or more allocations as a pair *)
determineSourceVersion_PairsAmongMany(info, targetVersion) ==
    IF Len(info) = 0
    THEN [version |-> "", err |-> "NoTrafficData", detail |-> NoDetail]
    ELSE IF Len(info) = 1
    THEN IF info[1].Version = targetVersion
         THEN [version |-> "", err |-> "AlreadyComplete", detail |-> NoDetail]
         ELSE [version |-> info[1].Version, err |-> "", detail |-> NoDetail]
    ELSE LET sv == LastOtherVersion(info, targetVersion, Len(info)) IN
         IF sv = ""
         THEN [version |-> "", err |-> "DestinationNotFound", detail |-> NoDetail]
         ELSE [version |-> sv, err |-> "", detail |-> NoDetail]

determineSourceVersion(info, targetVersion) ==
    IF Len(info) = 0
    THEN [version |-> "", err |-> "NoTrafficData", detail |-> NoDetail]
    ELSE IF Len(info) = 1
    THEN IF info[1].Version = targetVersion
         THEN [version |-> "", err |-> "AlreadyComplete", detail |-> NoDetail]
         ELSE [version |-> info[1].Version, err |-> "", detail |-> NoDetail]
    ELSE IF Len(info) = 2
    THEN LET sv == LastOtherVersion(info, targetVersion, 2) IN
         IF sv = ""
         THEN [version |-> "", err |-> "DestinationNotFound", detail |-> NoDetail]
         ELSE [version |-> sv, err |-> "", detail |-> NoDetail]
    ELSE [version |-> "", err |-> "AbnormalTrafficState",
          detail |-> [i \in 1..Len(info) |-> <<info[i].Version, info[i].Percentage>>]]

(* the presence check left out *)
isVersionInTrafficAllocations_AlwaysTrue(info, version) == TRUE

isVersionInTrafficAllocations(info, version) ==
    \E i \in 1..Len(info) : info[i].Version = version

(* the first allocation of the version, -1.0 when there is none *)
getTrafficPercentage(info, version) ==
    IF \E k \in 1..Len(info) : info[k].Version = version
    THEN info[CHOOSE i \in 1..Len(info) :
                /\ info[i].Version = version
                /\ \A j \in 1..(i - 1) : info[j].Version # version].Percentage
    ELSE Float(-1)

(* sleeps once per second *)
sleepWithProgress_OncePerSecond(duration) == IF duration <= 0 THEN 0 ELSE duration

(* number of 100 ms sleeps sleepWithProgress makes *)
sleepWithProgress(duration) == IF duration <= 0 THEN 0 ELSE duration * TicksPerSecond

(* goes to the target rate in one step *)
NextTargetRate_JumpToTarget(current, stepRate, targetRate) == Float(targetRate)

(* advances by the step without the clamp *)
NextTargetRate_NoClamp(current, stepRate, targetRate) == current + Float(stepRate)

(* lines 235-239: advance by the step, clamp to the target rate *)
NextTargetRate(current, stepRate, targetRate) ==
    IF current + Float(stepRate) > Float(targetRate)
    THEN Float(targetRate)
    ELSE current + Float(stepRate)

(* takes the remainder of the fraction 1.0 instead of 100 percent *)
NextSourceRate_OfFraction(nextTargetRate) == Float(1) - nextTargetRate

(* line 240 *)
NextSourceRate(nextTargetRate) == Hundred - nextTargetRate

(* the map literal: with equal keys the later entry, the target's, stays *)
MakeAllocations(source, target, nextSourceRate, nextTargetRate) ==
    [v \in {source, target} |-> IF v = target THEN nextTargetRate ELSE nextSourceRate]


(* the local state of a second invocation: not started *)
NoOtherRun ==
    [pc |-> "NotStarted", trafficInfo |-> <<>>, ticks |-> 0,
     allocations |-> EmptyMap, applyCalls |-> 0, exitCode |-> -1]

(* ------------------------- one run of main ----------------------------- *)
Init ==
    /\ platform \in Platforms
    /\ platform0 = platform
    /\ config \in Configs
    /\ pc = "Validating"
    /\ violations = <<>>
    /\ trafficInfo = <<>>
    /\ ticks = 0
    /\ sourceVersion = ""
    /\ resolveErr = ""
    /\ allocations = EmptyMap
    /\ applyCalls = 0
    /\ updateRequests = <<>>
    /\ faulted = FALSE
    /\ exitCode = -1
    /\ runs = 1
    /\ fetchCalls = 0
    /\ fetchFault = FALSE
    /\ applyErr = ""
    /\ shardByArg = ""
    /\ otherRun = NoOtherRun

Exit(code) ==
    /\ pc' = IF code = 0 THEN "Done" ELSE "Error"
    /\ exitCode' = code

(* reports the violations and goes on to fetch *)
Validating_ContinuesOnError ==
    /\ pc = "Validating"
    /\ violations' = validate(config)
    /\ pc' = "Fetching"
    /\ exitCode' = exitCode
    /\ UNCHANGED <<platform, platform0, config, trafficInfo, ticks, sourceVersion,
                   resolveErr, allocations, applyCalls, updateRequests, faulted, runs,
                   fetchCalls, fetchFault, applyErr, shardByArg, otherRun>>

(* lines 181-193 *)
Validating ==
    /\ pc = "Validating"
    /\ violations' = validate(config)
    /\ IF Len(validate(config)) > 0
       THEN Exit(1)
       ELSE pc' = "Fetching" /\ exitCode' = exitCode
    /\ UNCHANGED <<platform, platform0, config, trafficInfo, ticks, sourceVersion,
                   resolveErr, allocations, applyCalls, updateRequests, faulted, runs,
                   fetchCalls, fetchFault, applyErr, shardByArg, otherRun>>

(* lines 195-208 *)
Fetching ==
    /\ pc = "Fetching"
    /\ \E o \in FetchOutcomes :
        LET serviceVersions == ListServiceVersions(platform, o) IN
        /\ faulted' = (faulted \/ serviceVersions.err
                       \/ getTrafficMap(platform, o).err)
        /\ fetchFault' = (serviceVersions.err \/ getTrafficMap(platform, o).err)
        /\ IF serviceVersions.err
           THEN Exit(1) /\ trafficInfo' = trafficInfo
           ELSE /\ trafficInfo' = trafficInfoFromServiceVersions(serviceVersions)
                /\ pc' = "Waiting"
                /\ exitCode' = exitCode
    /\ ticks' = 0
    /\ fetchCalls' = fetchCalls + 1
    /\ UNCHANGED <<platform, platform0, config, violations, sourceVersion,
                   resolveErr, allocations, applyCalls, updateRequests, runs,
                   applyErr, shardByArg, otherRun>>

(* line 210, one iteration of the loop of sleepWithProgress *)
WaitTick ==
    /\ pc = "Waiting"
    /\ ticks < sleepWithProgress(config.Interval)
    /\ ticks' = ticks + 1
    /\ UNCHANGED <<platform, platform0, config, pc, violations, trafficInfo,
                   sourceVersion, resolveErr, allocations, applyCalls,
                   updateRequests, faulted, exitCode, runs, fetchCalls,
                   fetchFault, applyErr, shardByArg, otherRun>>

(* returns without having slept *)
WaitDone_NoWait ==
    /\ pc = "Waiting"
    /\ pc' = "Resolving"
    /\ UNCHANGED <<platform, platform0, config, violations, trafficInfo, ticks,
                   sourceVersion, resolveErr, allocations, applyCalls,
                   updateRequests, faulted, exitCode, runs, fetchCalls,
                   fetchFault, applyErr, shardByArg, otherRun>>

(* line 210, sleepWithProgress returns *)
WaitDone ==
    /\ pc = "Waiting"
    /\ ticks >= sleepWithProgress(config.Interval)
    /\ pc' = "Resolving"
    /\ UNCHANGED <<platform, platform0, config, violations, trafficInfo, ticks,
                   sourceVersion, resolveErr, allocations, applyCalls,
                   updateRequests, faulted, exitCode, runs, fetchCalls,
                   fetchFault, applyErr, shardByArg, otherRun>>

(* lines 212-228 *)
Resolving ==
    /\ pc = "Resolving"
    /\ LET r == determineSourceVersion(trafficInfo, config.TargetVersion) IN
       IF ~isVersionInTrafficAllocations(trafficInfo, config.TargetVersion)
       THEN /\ Exit(1)
            /\ resolveErr' = "TargetNotInAllocations"
            /\ sourceVersion' = sourceVersion
       ELSE IF r.err # ""
       THEN /\ Exit(1)
            /\ resolveErr' = r.err
            /\ sourceVersion' = sourceVersion
       ELSE /\ pc' = "Checking"
            /\ exitCode' = exitCode
            /\ resolveErr' = ""
            /\ sourceVersion' = r.version
    /\ UNCHANGED <<platform, platform0, config, violations, trafficInfo, ticks,
                   allocations, applyCalls, updateRequests, faulted, runs,
                   fetchCalls, fetchFault, applyErr, shardByArg, otherRun>>

(* lines 230-233 *)
Checking ==
    /\ pc = "Checking"
    /\ IF getTrafficPercentage(trafficInfo, config.TargetVersion) >= Float(config.TargetRate)
       THEN Exit(0)
       ELSE pc' = "Computing" /\ exitCode' = exitCode
    /\ UNCHANGED <<platform, platform0, config, violations, trafficInfo, ticks,
                   sourceVersion, resolveErr, allocations, applyCalls,
                   updateRequests, faulted, runs, fetchCalls, fetchFault,
                   applyErr, shardByArg, otherRun>>

(* lines 235-246 *)
Computing ==
    /\ pc = "Computing"
    /\ LET nextTargetRate ==
               NextTargetRate(getTrafficPercentage(trafficInfo, config.TargetVersion),
                              config.StepRate, config.TargetRate)
           nextSourceRate == NextSourceRate(nextTargetRate)
       IN allocations' = MakeAllocations(sourceVersion, config.TargetVersion,
                                         nextSourceRate, nextTargetRate)
    /\ pc' = "Applying"
    /\ UNCHANGED <<platform, platform0, config, violations, trafficInfo, ticks,
                   sourceVersion, resolveErr, applyCalls, updateRequests, faulted,
                   exitCode, runs, fetchCalls, fetchFault, applyErr, shardByArg,
                   otherRun>>

(* calls UpdateTrafficAllocation again after a failure *)
Applying_RetriesOnce ==
    /\ pc = "Applying"
    /\ \E o \in ApplyOutcomes :
        LET r == UpdateTrafficAllocation(platform, "", allocations, o) IN
        /\ platform' = r.service
        /\ updateRequests' = updateRequests \o r.requests
        /\ faulted' = (faulted \/ r.err \in {"client", "update", "wait"})
        /\ applyErr' = r.err
        /\ IF r.err = "" THEN Exit(0)
           ELSE IF applyCalls = 0 THEN pc' = pc /\ exitCode' = exitCode
           ELSE Exit(1)
    /\ applyCalls' = applyCalls + 1
    /\ UNCHANGED <<platform0, config, violations, trafficInfo, ticks,
                   sourceVersion, resolveErr, allocations, runs, fetchCalls,
                   fetchFault, shardByArg, otherRun>>

(* drops the error UpdateTrafficAllocation returns *)
Applying_IgnoresError ==
    /\ pc = "Applying"
    /\ \E o \in ApplyOutcomes :
        LET r == UpdateTrafficAllocation(platform, "", allocations, o) IN
        /\ platform' = r.service
        /\ updateRequests' = updateRequests \o r.requests
        /\ faulted' = (faulted \/ r.err \in {"client", "update", "wait"})
        /\ applyErr' = r.err
        /\ Exit(0)
    /\ applyCalls' = applyCalls + 1
    /\ UNCHANGED <<platform0, config, violations, trafficInfo, ticks,
                   sourceVersion, resolveErr, allocations, runs, fetchCalls,
                   fetchFault, shardByArg, otherRun>>

(* lines 248-253 for a shardBy argument sb: the call is made whatever      *)
(* config.DryRun is                                                        *)
ApplyingWith(sb) ==
    /\ pc = "Applying"
    /\ \E o \in ApplyOutcomes :
        LET r == UpdateTrafficAllocation(platform, sb, allocations, o) IN
        /\ platform' = r.service
        /\ updateRequests' = updateRequests \o r.requests
        /\ faulted' = (faulted \/ r.err \in {"client", "update", "wait"})
        /\ applyErr' = r.err
        /\ IF r.err # "" THEN Exit(1) ELSE Exit(0)
    /\ applyCalls' = applyCalls + 1
    /\ UNCHANGED <<platform0, config, violations, trafficInfo, ticks,
                   sourceVersion, resolveErr, allocations, runs, fetchCalls,
                   fetchFault, shardByArg, otherRun>>

(* line 248: main passes "" as shardBy *)
Applying == ApplyingWith("")

(* the external scheduler starts the program again with the same flags *)
Invoke ==
    /\ pc \in {"Done", "Error"}
    /\ runs < MaxRuns
    /\ runs' = runs + 1
    /\ pc' = "Validating"
    /\ violations' = <<>>
    /\ trafficInfo' = <<>>
    /\ ticks' = 0
    /\ sourceVersion' = ""
    /\ resolveErr' = ""
    /\ allocations' = EmptyMap
    /\ applyCalls' = 0
    /\ updateRequests' = <<>>
    /\ exitCode' = -1
    /\ fetchCalls' = 0
    /\ fetchFault' = FALSE
    /\ applyErr' = ""
    /\ UNCHANGED <<platform, platform0, config, faulted, shardByArg, otherRun>>

Next ==
    \/ Validating
    \/ Fetching
    \/ WaitTick
    \/ WaitDone
    \/ Resolving
    \/ Checking
    \/ Computing
    \/ Applying
    \/ Invoke

Spec == Init /\ [][Next]_vars

(* --------------- determineSourceVersion on its own --------------------- *)
ResolvePcts == {30 * PctScale, 70 * PctScale, Hundred}

(* snapshots of up to three allocations, each version at most once *)
ResolveSnapshots ==
    {<<>>}
    \cup {<<[Version |-> v, Percentage |-> p]>> : v \in Versions, p \in ResolvePcts}
    \cup {<<[Version |-> v, Percentage |-> p], [Version |-> w, Percentage |-> q]>> :
            <<v, w>> \in {x \in Versions \X Versions : x[1] # x[2]},
            <<p, q>> \in ResolvePcts \X ResolvePcts}
    \cup {<<[Version |-> x[1], Percentage |-> p[1]],
            [Version |-> x[2], Percentage |-> p[2]],
            [Version |-> x[3], Percentage |-> p[3]]>> :
            x \in {y \in Versions \X Versions \X Versions :
                      y[1] # y[2] /\ y[1] # y[3] /\ y[2] # y[3]},
            p \in ResolvePcts \X ResolvePcts \X {20 * PctScale}}

InitResolve ==
    /\ platform \in OneVersionPlatforms
    /\ platform0 = platform
    /\ config \in {c \in Configs : /\ c.Project = "proj" /\ c.Service = "svc"
                                   /\ c.TargetVersion # "" /\ c.Interval = 0
                                   /\ c.TargetRate = DefaultTargetRate
                                   /\ c.StepRate = DefaultStepRate /\ ~c.DryRun}
    /\ pc = "Resolve"
    /\ violations = <<>>
    /\ trafficInfo \in ResolveSnapshots
    /\ ticks = 0
    /\ sourceVersion = ""
    /\ resolveErr = ""
    /\ allocations = EmptyMap
    /\ applyCalls = 0
    /\ updateRequests = <<>>
    /\ faulted = FALSE
    /\ exitCode = -1
    /\ runs = 1
    /\ fetchCalls = 0
    /\ fetchFault = FALSE
    /\ applyErr = ""
    /\ shardByArg = ""
    /\ otherRun = NoOtherRun

ResolveCall ==
    /\ pc = "Resolve"
    /\ LET r == determineSourceVersion(trafficInfo, config.TargetVersion) IN
       /\ sourceVersion' = r.version
       /\ resolveErr' = r.err
    /\ pc' = "Resolved"
    /\ UNCHANGED <<platform, platform0, config, violations, trafficInfo, ticks,
                   allocations, applyCalls, updateRequests, faulted, exitCode, runs,
                   fetchCalls, fetchFault, applyErr, shardByArg, otherRun>>

NextResolve == ResolveCall

SpecResolve == InitResolve /\ [][NextResolve]_vars

(* ------- the apply step for every shardBy a caller may pass ------------ *)
ShardBys == {"", "ip", "IP", "cookie", "random", "unspecified", "header"}

ClientRequests ==
    {[v \in {"A", "B"} |-> IF v = "B" THEN d ELSE Hundred - d] :
        d \in {10 * PctScale, 40 * PctScale, 60 * PctScale, Hundred}}

InitClient ==
    /\ platform \in TwoVersionPlatforms
    /\ platform0 = platform
    /\ config \in {c \in Configs : /\ c.Project = "proj" /\ c.Service = "svc"
                                   /\ c.TargetVersion = "B" /\ c.Interval = 0
                                   /\ c.TargetRate = DefaultTargetRate
                                   /\ c.StepRate = DefaultStepRate /\ ~c.DryRun}
    /\ pc = "Applying"
    /\ violations = <<>>
    /\ trafficInfo = <<>>
    /\ ticks = 0
    /\ sourceVersion = "A"
    /\ resolveErr = ""
    /\ allocations \in ClientRequests
    /\ applyCalls = 0
    /\ updateRequests = <<>>
    /\ faulted = FALSE
    /\ exitCode = -1
    /\ runs = 1
    /\ fetchCalls = 0
    /\ fetchFault = FALSE
    /\ applyErr = ""
    /\ shardByArg \in ShardBys
    /\ otherRun = NoOtherRun

ClientApply == ApplyingWith(shardByArg)

NextClient == ClientApply

SpecClient == InitClient /\ [][NextClient]_vars

(* ------ two invocations of main for one service at the same time ------- *)
(* Nothing in main or in the client keeps a second process from running:   *)
(* the scheduler may start one while the first is still in its wait.  The  *)
(* second invocation has the same flags; its local state is otherRun.      *)
OverlapDestPcts == {10 * PctScale, 30 * PctScale, 60 * PctScale}

OverlapSplits ==
    {[v \in {"A", "B"} |-> IF v = "B" THEN d ELSE DecimalScale - d] :
        d \in OverlapDestPcts}

InitOverlap ==
    /\ platform \in {p \in TwoVersionPlatforms :
                        p.versions = <<"A", "B">> /\ p.split \in OverlapSplits}
    /\ platform0 = platform
    /\ config \in {c \in Configs : /\ c.Project = "proj" /\ c.Service = "svc"
                                   /\ c.TargetVersion = "B"
                                   /\ c.Interval \in {0, MaxInterval}
                                   /\ c.TargetRate = DefaultTargetRate
                                   /\ c.StepRate \in {DefaultStepRate, 25}
                                   /\ ~c.DryRun}
    /\ pc = "Validating"
    /\ violations = <<>>
    /\ trafficInfo = <<>>
    /\ ticks = 0
    /\ sourceVersion = ""
    /\ resolveErr = ""
    /\ allocations = EmptyMap
    /\ applyCalls = 0
    /\ updateRequests = <<>>
    /\ faulted = FALSE
    /\ exitCode = -1
    /\ runs = 1
    /\ fetchCalls = 0
    /\ fetchFault = FALSE
    /\ applyErr = ""
    /\ shardByArg = ""
    /\ otherRun = [NoOtherRun EXCEPT !.pc = "Validating"]

(* lines 181-193 *)
OtherValidating ==
    /\ otherRun.pc = "Validating"
    /\ otherRun' = IF Len(validate(config)) > 0
                   THEN [otherRun EXCEPT !.pc = "Error", !.exitCode = 1]
                   ELSE [otherRun EXCEPT !.pc = "Fetching"]
    /\ UNCHANGED <<platform, platform0, config, pc, violations, trafficInfo, ticks,
                   sourceVersion, resolveErr, allocations, applyCalls,
                   updateRequests, faulted, exitCode, runs, fetchCalls,
                   fetchFault, applyErr, shardByArg>>

(* lines 195-208 *)
OtherFetching ==
    /\ otherRun.pc = "Fetching"
    /\ \E o \in FetchOutcomes :
        LET serviceVersions == ListServiceVersions(platform, o) IN
        /\ faulted' = (faulted \/ serviceVersions.err
                       \/ getTrafficMap(platform, o).err)
        /\ otherRun' =
             IF serviceVersions.err
             THEN [otherRun EXCEPT !.pc = "Error", !.exitCode = 1]
             ELSE [otherRun EXCEPT
                     !.pc = "Waiting",
                     !.trafficInfo = trafficInfoFromServiceVersions(serviceVersions)]
    /\ UNCHANGED <<platform, platform0, config, pc, violations, trafficInfo, ticks,
                   sourceVersion, resolveErr, allocations, applyCalls,
                   updateRequests, exitCode, runs, fetchCalls, fetchFault,
                   applyErr, shardByArg>>

(* line 210, one iteration of the loop of sleepWithProgress *)
OtherWaitTick ==
    /\ otherRun.pc = "Waiting"
    /\ otherRun.ticks < sleepWithProgress(config.Interval)
    /\ otherRun' = [otherRun EXCEPT !.ticks = @ + 1]
    /\ UNCHANGED <<platform, platform0, config, pc, violations, trafficInfo, ticks,
                   sourceVersion, resolveErr, allocations, applyCalls,
                   updateRequests, faulted, exitCode, runs, fetchCalls,
                   fetchFault, applyErr, shardByArg>>

(* line 210, sleepWithProgress returns *)
OtherWaitDone ==
    /\ otherRun.pc = "Waiting"
    /\ otherRun.ticks >= sleepWithProgress(config.Interval)
    /\ otherRun' = [otherRun EXCEPT !.pc = "Planning"]
    /\ UNCHANGED <<platform, platform0, config, pc, violations, trafficInfo, ticks,
                   sourceVersion, resolveErr, allocations, applyCalls,
                   updateRequests, faulted, exitCode, runs, fetchCalls,
                   fetchFault, applyErr, shardByArg>>

(* lines 212-246: the presence check, determineSourceVersion, the          *)
(* at-target exit and the step, all on the invocation's own snapshot       *)
OtherPlanning ==
    /\ otherRun.pc = "Planning"
    /\ LET info == otherRun.trafficInfo
           r == determineSourceVersion(info, config.TargetVersion)
           current == getTrafficPercentage(info, config.TargetVersion)
           nextTargetRate == NextTargetRate(current, config.StepRate, config.TargetRate)
           nextSourceRate == NextSourceRate(nextTargetRate)
       IN otherRun' =
            IF ~isVersionInTrafficAllocations(info, config.TargetVersion) \/ r.err # ""
            THEN [otherRun EXCEPT !.pc = "Error", !.exitCode = 1]
            ELSE IF current >= Float(config.TargetRate)
            THEN [otherRun EXCEPT !.pc = "Done", !.exitCode = 0]
            ELSE [otherRun EXCEPT
                    !.pc = "Applying",
                    !.allocations = MakeAllocations(r.version, config.TargetVersion,
                                                    nextSourceRate, nextTargetRate)]
    /\ UNCHANGED <<platform, platform0, config, pc, violations, trafficInfo, ticks,
                   sourceVersion, resolveErr, allocations, applyCalls,
                   updateRequests, faulted, exitCode, runs, fetchCalls,
                   fetchFault, applyErr, shardByArg>>

(* lines 248-253 *)
OtherApplying ==
    /\ otherRun.pc = "Applying"
    /\ \E o \in ApplyOutcomes :
        LET r == UpdateTrafficAllocation(platform, "", otherRun.allocations, o) IN
        /\ platform' = r.service
        /\ faulted' = (faulted \/ r.err \in {"client", "update", "wait"})
        /\ otherRun' = [otherRun EXCEPT
                          !.pc = IF r.err # "" THEN "Error" ELSE "Done",
                          !.exitCode = IF r.err # "" THEN 1 ELSE 0,
                          !.applyCalls = @ + 1]
    /\ UNCHANGED <<platform0, config, pc, violations, trafficInfo, ticks,
                   sourceVersion, resolveErr, allocations, applyCalls,
                   updateRequests, exitCode, runs, fetchCalls, fetchFault,
                   applyErr, shardByArg>>

(* someone else (an operator, a deployment) sets another split while an    *)
(* invocation is in its wait                                               *)
ExternalChange ==
    /\ pc = "Waiting" \/ otherRun.pc = "Waiting"
    /\ \E split \in OverlapSplits :
        /\ split # platform.split
        /\ platform' = [platform EXCEPT !.split = split]
    /\ UNCHANGED <<platform0, config, pc, violations, trafficInfo, ticks,
                   sourceVersion, resolveErr, allocations, applyCalls,
                   updateRequests, faulted, exitCode, runs, fetchCalls,
                   fetchFault, applyErr, shardByArg, otherRun>>

NextOverlap ==
    \/ Validating
    \/ Fetching
    \/ WaitTick
    \/ WaitDone
    \/ Resolving
    \/ Checking
    \/ Computing
    \/ Applying
    \/ OtherValidating
    \/ OtherFetching
    \/ OtherWaitTick
    \/ OtherWaitDone
    \/ OtherPlanning
    \/ OtherApplying
    \/ ExternalChange

SpecOverlap == InitOverlap /\ [][NextOverlap]_vars

(* ============================ properties =============================== *)
Terminal == pc \in {"Done", "Error"}
PlanComputed == allocations # EmptyMap
TargetPct == getTrafficPercentage(trafficInfo, config.TargetVersion)
TargetInSnapshot == isVersionInTrafficAllocations(trafficInfo, config.TargetVersion)
Min(a, b) == IF a < b THEN a ELSE b

(* share of a version on the platform, in units of 1/PctScale percent *)
PlatformPct(service, v) ==
    IF v \in DOMAIN service.split THEN convertToPercentage(service.split[v]) ELSE 0

(* C1: with dry-run set and no platform call failing, a run never calls    *)
(* UpdateTrafficAllocation, sends no update to the platform, leaves the    *)
(* platform's split as it was, and a run that computed a split ends in     *)
(* Done.                                                                   *)
C1_DryRunNeverApplies ==
    (config.DryRun /\ ~faulted) =>
        /\ applyCalls = 0
        /\ updateRequests = <<>>
        /\ platform.split = platform0.split
        /\ (Terminal /\ PlanComputed => pc = "Done" /\ exitCode = 0)

(* C2: for a current destination share in [0,100], step-rate in [1,100]    *)
(* and target-rate in [0,100], the computed split has                      *)
(* destination = min(current + step-rate, target-rate), which is at most   *)
(* target-rate, and source = 100 - destination.                            *)
C2_StepIsClampedSum ==
    (/\ PlanComputed
     /\ TargetPct \in 0..Hundred
     /\ config.StepRate \in 1..100
     /\ config.TargetRate \in 0..100)
    => /\ allocations[config.TargetVersion]
            = Min(TargetPct + Float(config.StepRate), Float(config.TargetRate))
       /\ allocations[config.TargetVersion] <= Float(config.TargetRate)
       /\ allocations[sourceVersion] = Hundred - allocations[config.TargetVersion]

(* the clamped example (50, 25, 60) -> 60/40 *)
C2_Witness ==
    /\ pc = "Applying"
    /\ TargetPct = Float(50) /\ config.StepRate = 25 /\ config.TargetRate = 60
    /\ allocations[config.TargetVersion] = Float(60)
    /\ allocations[sourceVersion] = Float(40)

(* C3: a run that fetched, without a platform failure, a snapshot of one   *)
(* or two allocations in which the destination's share is at least         *)
(* target-rate ends in Done with exit code 0 and makes no apply call,      *)
(* whatever step-rate is.                                                  *)
C3_AtTargetIsNoOp ==
    (/\ Terminal
     /\ ~faulted
     /\ Len(trafficInfo) \in {1, 2}
     /\ TargetInSnapshot
     /\ TargetPct >= Float(config.TargetRate))
    => /\ pc = "Done"
       /\ exitCode = 0
       /\ applyCalls = 0

(* the split a live run is to request, as the platform stores it *)
ExpectedRequest ==
    LET next == Min(TargetPct + Float(config.StepRate), Float(config.TargetRate)) IN
    [v \in {sourceVersion, config.TargetVersion} |->
        convertToDecimal(IF v = config.TargetVersion THEN next ELSE Hundred - next)]

(* C4: a live run with a valid config on a two-version snapshot whose      *)
(* destination is below target-rate, with no platform call failing,        *)
(* requests exactly the computed split and ends in Done with exit code 0.  *)
C4_LiveRunApplies ==
    (/\ Terminal
     /\ ~config.DryRun
     /\ ~faulted
     /\ Len(trafficInfo) = 2
     /\ TargetInSnapshot
     /\ TargetPct < Float(config.TargetRate))
    => /\ pc = "Done"
       /\ exitCode = 0
       /\ updateRequests = <<ExpectedRequest>>
       /\ platform.split = ExpectedRequest

(* C5: invoked repeatedly on a faithful platform nobody else changes, from *)
(* a two-version service with the destination below target-rate, the       *)
(* destination's share equals target-rate once                             *)
(* ceil((target-rate - initial) / step-rate) runs have completed; a run    *)
(* that finds it there ends in Done without an apply call.                 *)
C5_ConvergesWithinBound ==
    (/\ Terminal
     /\ validate(config) = <<>>
     /\ ~config.DryRun
     /\ ~faulted
     /\ config.TargetRate \in 0..100
     /\ Len(platform0.versions) = 2
     /\ \E i \in 1..2 : platform0.versions[i] = config.TargetVersion
     /\ PlatformPct(platform0, config.TargetVersion) < Float(config.TargetRate))
    => /\ (PlatformPct(platform0, config.TargetVersion) + runs * Float(config.StepRate)
              >= Float(config.TargetRate)
           => PlatformPct(platform, config.TargetVersion) = Float(config.TargetRate))
       /\ (TargetPct >= Float(config.TargetRate) => pc = "Done" /\ applyCalls = 0)

(* C6: the two percentages of every computed split, and so of every map    *)
(* passed to the apply call, sum to exactly 100.                           *)
C6_PlanSumsToHundred ==
    PlanComputed =>
        /\ DOMAIN allocations = {sourceVersion, config.TargetVersion}
        /\ sourceVersion # config.TargetVersion
        /\ allocations[sourceVersion] + allocations[config.TargetVersion] = Hundred

(* an apply call was made with the split 60 / 40 computed from 50 + 10 *)
C6_Witness ==
    /\ applyCalls = 1
    /\ TargetPct = Float(50)
    /\ allocations[config.TargetVersion] = Float(60)
    /\ allocations[sourceVersion] = Float(40)

(* C7: on a snapshot of three or more allocations the resolver returns     *)
(* AbnormalTrafficState for every destination, listing every version with  *)
(* its percentage, and a run on it ends in Error with exit code 1 and no   *)
(* apply call.                                                             *)
C7_AbnormalIsFatal ==
    Len(trafficInfo) >= 3 =>
        /\ \A d \in Versions :
              LET r == determineSourceVersion(trafficInfo, d) IN
              /\ r.err = "AbnormalTrafficState"
              /\ r.version = ""
              /\ Len(r.detail) = Len(trafficInfo)
              /\ \A i \in 1..Len(trafficInfo) :
                    r.detail[i] = <<trafficInfo[i].Version, trafficInfo[i].Percentage>>
        /\ pc \notin {"Checking", "Computing", "Applying", "Done"}
        /\ (Terminal => pc = "Error" /\ exitCode = 1)
        /\ applyCalls = 0
        /\ updateRequests = <<>>

C7_Witness ==
    /\ pc = "Error"
    /\ exitCode = 1
    /\ resolveErr = "AbnormalTrafficState"
    /\ Len(trafficInfo) = 3

(* number of allocations of the snapshot that are the destination *)
TargetCount == Cardinality({i \in 1..Len(trafficInfo) :
                               trafficInfo[i].Version = config.TargetVersion})

(* C8: on a snapshot of exactly two allocations the resolver returns the   *)
(* allocation that is not the destination when exactly one of them is the  *)
(* destination, and DestinationNotFound, never a version, when neither is. *)
C8_TwoAllocations ==
    (pc = "Resolved" /\ Len(trafficInfo) = 2) =>
        /\ (TargetCount = 1 =>
                /\ resolveErr = ""
                /\ sourceVersion # config.TargetVersion
                /\ \E i \in 1..2 : trafficInfo[i].Version = sourceVersion)
        /\ (TargetCount = 0 =>
                /\ resolveErr = "DestinationNotFound"
                /\ sourceVersion = "")

(* C9: when the only allocation of the fetched snapshot is the             *)
(* destination, the resolver reports AlreadyComplete and the run ends with *)
(* exit code 0 and no apply call.                                          *)
C9_AlreadyCompleteIsSuccess ==
    (/\ Terminal
     /\ ~faulted
     /\ Len(trafficInfo) = 1
     /\ trafficInfo[1].Version = config.TargetVersion)
    => /\ resolveErr = "AlreadyComplete"
       /\ pc = "Done"
       /\ exitCode = 0
       /\ applyCalls = 0

AllFields == {"project", "service", "target-version", "step-rate"}

C11_InvalidConfigStopsFirst ==
    violations # <<>> =>
        /\ pc = "Error"
        /\ exitCode # 0 /\ exitCode # -1
        /\ fetchCalls = 0
        /\ trafficInfo = <<>>
        /\ ticks = 0
        /\ applyCalls = 0
        /\ updateRequests = <<>>
        /\ platform = platform0

C11_Witness ==
    /\ pc = "Error"
    /\ exitCode = 1
    /\ violations = <<"step-rate">>
    /\ config.Interval = MaxInterval
    /\ fetchCalls = 0

(* C12: when a platform call of the fetch fails (traffic information or    *)
(* version listing) the run ends in Error with exit code 1 and goes no     *)
(* further: no wait, no resolving, no computed split, no apply call.       *)
C12_FetchFailureIsFatal ==
    fetchFault =>
        /\ pc = "Error"
        /\ exitCode = 1
        /\ resolveErr = ""
        /\ allocations = EmptyMap
        /\ applyCalls = 0

WaitTicks == IF config.Interval <= 0 THEN 0 ELSE config.Interval * 10

StepOrder ==
    {<<"Validating", "Fetching">>, <<"Fetching", "Waiting">>,
     <<"Waiting", "Resolving">>, <<"Resolving", "Checking">>,
     <<"Checking", "Computing">>, <<"Computing", "Applying">>,
     <<"Applying", "Done">>}

Rank(p) ==
    CASE p = "Validating" -> 1
      [] p = "Fetching" -> 2
      [] p = "Waiting" -> 3
      [] p = "Resolving" -> 4
      [] p = "Checking" -> 5
      [] p = "Computing" -> 6
      [] p = "Applying" -> 7
      [] OTHER -> 8

(* what must have happened before the apply call *)
ReadyToApply ==
    /\ violations = <<>>
    /\ validate(config) = <<>>
    /\ fetchCalls = 1
    /\ trafficInfo # <<>>
    /\ ticks = WaitTicks
    /\ TargetInSnapshot
    /\ resolveErr = ""
    /\ sourceVersion # ""
    /\ TargetPct < Float(config.TargetRate)
    /\ PlanComputed

(* C14: within a run the steps follow the order Validating, Fetching,      *)
(* Waiting, Resolving, Checking, Computing, Applying, Done, one after the  *)
(* other (a step may end the run instead), and an apply call is made only  *)
(* after validation succeeded, the snapshot was fetched, the wait elapsed, *)
(* the destination was found, the source resolved and the at-target check  *)
(* passed.                                                                 *)
C14_FixedStepOrder ==
    /\ [][(runs' = runs /\ pc' # pc) =>
            \/ <<pc, pc'>> \in StepOrder
            \/ pc' = "Error"
            \/ (pc = "Checking" /\ pc' = "Done")]_vars
    /\ []((pc = "Applying" \/ applyCalls > 0) => ReadyToApply)

(* an apply call after a full wait *)
C14_Witness ==
    /\ applyCalls = 1
    /\ config.Interval = MaxInterval
    /\ ticks = MaxInterval * 10
    /\ Len(trafficInfo) = 2

(* C15: a run makes at most one apply call and at most one fetch, ends     *)
(* after a failed fetch or a failed apply, never goes back to an earlier   *)
(* step and does nothing more once it has ended.                           *)
C15_NoRetryNoLoop ==
    /\ [](/\ applyCalls <= 1
          /\ fetchCalls <= 1
          /\ Len(updateRequests) <= 1
          /\ (fetchCalls = 1 /\ trafficInfo = <<>> => pc = "Error")
          /\ (applyErr # "" => pc = "Error"))
    /\ [][runs' = runs =>
            /\ Rank(pc') >= Rank(pc)
            /\ ~Terminal
            /\ fetchCalls' >= fetchCalls
            /\ applyCalls' >= applyCalls]_vars

(* a failed apply ended the run after one fetch and one apply call *)
C15_Witness ==
    /\ pc = "Error"
    /\ fetchCalls = 1
    /\ applyCalls = 1
    /\ applyErr # ""

(* C16: a run is in Done after an apply call only when the update request  *)
(* was sent and the platform's operation has completed, that is, the       *)
(* platform serves the requested split; no success while it is pending.    *)
C16_DoneOnlyAfterOperation ==
    (pc = "Done" /\ applyCalls > 0) =>
        /\ applyErr = ""
        /\ Len(updateRequests) = 1
        /\ updateRequests[1] = [v \in DOMAIN allocations |->
                                   convertToDecimal(allocations[v])]
        /\ platform.split = updateRequests[1]

(* success after an apply that changed the platform's split *)
C16_Witness ==
    /\ pc = "Done"
    /\ exitCode = 0
    /\ applyCalls = 1
    /\ shardByArg = "ip"
    /\ platform.split # platform0.split
    /\ platform.split = updateRequests[1]

(* everything of a run but its position and the sleep counter *)
RunState ==
    <<platform, platform0, config, violations, trafficInfo, sourceVersion,
      resolveErr, allocations, applyCalls, updateRequests, faulted, exitCode,
      runs, fetchCalls, fetchFault, applyErr, shardByArg>>

(* exit code and apply request of a run as a function of the snapshot, the *)
(* configuration without its interval and the result of the apply call     *)
OutcomeWithoutInterval ==
    IF ~TargetInSnapshot \/ Len(trafficInfo) # 2
    THEN [exit |-> 1, request |-> EmptyMap]
    ELSE IF TargetPct >= Float(config.TargetRate)
    THEN [exit |-> 0, request |-> EmptyMap]
    ELSE [exit |-> IF applyErr = "" THEN 0 ELSE 1,
          request |->
             LET next == Min(TargetPct + Float(config.StepRate),
                             Float(config.TargetRate))
                 other == CHOOSE v \in {trafficInfo[1].Version, trafficInfo[2].Version} :
                             v # config.TargetVersion
             IN [v \in {other, config.TargetVersion} |->
                   IF v = config.TargetVersion THEN next ELSE Hundred - next]]

C18_SingleOtherIsSource ==
    (/\ pc = "Resolved"
     /\ Len(trafficInfo) = 1
     /\ trafficInfo[1].Version # config.TargetVersion)
    => /\ resolveErr = ""
       /\ sourceVersion = trafficInfo[1].Version

(* {A:100} with destination B resolves source A *)
C18_Witness ==
    /\ pc = "Resolved"
    /\ trafficInfo = <<[Version |-> "A", Percentage |-> Hundred]>>
    /\ config.TargetVersion = "B"
    /\ sourceVersion = "A"
    /\ resolveErr = ""

(* all percentages of the snapshot are within [0,100] *)
SnapshotInRange ==
    \A i \in 1..Len(trafficInfo) : trafficInfo[i].Percentage \in 0..Hundred

(* C19: for a config that passed validation and a snapshot whose           *)
(* percentages are within [0,100], both percentages of every apply request *)
(* are within [0,100].                                                     *)
C19_RequestWithinRange ==
    (applyCalls > 0 /\ violations = <<>> /\ SnapshotInRange) =>
        \A v \in DOMAIN allocations :
            0 <= allocations[v] /\ allocations[v] <= Hundred

(* C20: an apply request comes from a snapshot of exactly two allocations, *)
(* one of them the destination, and its map has exactly two distinct keys, *)
(* the destination and a resolved source that is the other version of the  *)
(* snapshot.                                                               *)
C20_ApplyOnlyFromPair ==
    (pc = "Applying" \/ applyCalls > 0) =>
        /\ Len(trafficInfo) = 2
        /\ TargetCount = 1
        /\ sourceVersion # config.TargetVersion
        /\ sourceVersion # ""
        /\ \E i \in 1..2 : trafficInfo[i].Version = sourceVersion
        /\ DOMAIN allocations = {sourceVersion, config.TargetVersion}
        /\ Cardinality(DOMAIN allocations) = 2

(* an apply call from the snapshot {A:70, B:30} *)
C20_Witness ==
    /\ applyCalls = 1
    /\ Len(trafficInfo) = 2
    /\ TargetPct = Float(30)
    /\ sourceVersion = "A"
    /\ config.TargetVersion = "B"
    /\ DOMAIN allocations = {"A", "B"}

(* the percentage the snapshot gives a version, the source at apply time *)
SourcePct == getTrafficPercentage(trafficInfo, sourceVersion)

(* C21: when a run issues an apply request, the requested destination      *)
(* percentage is strictly greater than the destination's percentage in the *)
(* snapshot the run fetched and exceeds it by at most step-rate; when the  *)
(* snapshot sums to 100 the requested source percentage is not greater     *)
(* than the source's percentage in the snapshot.                           *)
C21_RequestAdvancesByAtMostStep ==
    applyCalls > 0 =>
        /\ allocations[config.TargetVersion] > TargetPct
        /\ allocations[config.TargetVersion] <= TargetPct + Float(config.StepRate)
        /\ (TargetPct + SourcePct = Hundred =>
                allocations[sourceVersion] <= SourcePct)

(* {A:70, B:30} with step 10 requests {A:60, B:40}; {A:50, B:50} with step *)
(* 25 and target rate 60 requests {A:40, B:60}                             *)
C21_Witness ==
    /\ applyCalls = 1
    /\ config.TargetVersion = "B"
    /\ sourceVersion = "A"
    /\ \/ /\ TargetPct = Float(30) /\ SourcePct = Float(70)
          /\ config.StepRate = 10
          /\ allocations = [v \in {"A", "B"} |-> IF v = "B" THEN Float(40) ELSE Float(60)]
       \/ /\ TargetPct = Float(50) /\ SourcePct = Float(50)
          /\ config.StepRate = 25 /\ config.TargetRate = 60
          /\ allocations = [v \in {"A", "B"} |-> IF v = "B" THEN Float(60) ELSE Float(40)]

(* a step in which one of the two invocations calls UpdateTrafficAllocation *)
ApplyStep ==
    \/ applyCalls' = applyCalls + 1
    \/ otherRun'.applyCalls = otherRun.applyCalls + 1

(* C22: when invocations for the same service overlap, or another actor    *)
(* changes the platform's split during an invocation's wait, no apply of   *)
(* any invocation lowers the destination's share stored on the platform.  *)
C22_ApplyNeverLowersShare ==
    [][ApplyStep =>
         PlatformPct(platform', config.TargetVersion)
             >= PlatformPct(platform, config.TargetVersion)]_vars

(* both invocations have made their apply call from snapshots fetched      *)
(* without a failure, and the platform meanwhile holds a higher            *)
(* destination share than the first one fetched and than it asked for      *)
C22_Witness ==
    /\ applyCalls = 1
    /\ otherRun.applyCalls = 1
    /\ ~fetchFault
    /\ TargetPct < PlatformPct(platform, config.TargetVersion)
    /\ allocations[config.TargetVersion] < PlatformPct(platform, config.TargetVersion)

====
